---- MODULE Spec2Model ----
(***************************************************************************)
(* Model of the MLB free-agent dashboard: the two Streamlit entry points   *)
(* src/app.py and src/fa_tracker.py.  A script run is one action: the      *)
(* script calls load_data(), then renders the selected page.  DataFrames   *)
(* are modelled as an index plus a sequence of typed columns; text is a    *)
(* sequence of characters, a number is a decimal m * 10^-e.                *)
(***************************************************************************)
EXTENDS Integers, Sequences, FiniteSets, TLC

VARIABLES entry, files, cache, pc, data, page, sel, out, norm, lead, pm

vars == <<entry, files, cache, pc, data, page, sel, out, norm, lead, pm>>

(***************************************************************************)
(* Bounds of the model.                                                    *)
(***************************************************************************)
\* longest text drawn for a cell of the normalizer's input tables
MaxStrLen == 2
\* most rows of the normalizer's input tables
MaxRows == 2
\* most seasons picked in the season multi-select
MaxSelYears == 2
\* most players picked in the player multi-select
MaxPick == 2
\* longest usage text drawn for a pitch-mix cell
MaxUsageLen == 4
\* most rows of the short tables Top Leaders is run on
MaxSortRows == 3
\* rows beyond the ten Top Leaders keeps, in the long tables it is run on
MaxExtraRows == 1

(***************************************************************************)
(* Sequences.                                                              *)
(***************************************************************************)
Range(s) == {s[i] : i \in DOMAIN s}

\* a function on 1..n as the tuple of its values
List(f) == f \o <<>>

\* a function as the explicit table of its values
Explicit(f) == f @@ <<>>

Min(a, b) == IF a <= b THEN a ELSE b

RECURSIVE Flatten(_)
Flatten(ss) == IF ss = <<>> THEN <<>> ELSE Head(ss) \o Flatten(Tail(ss))

RECURSIVE SumSeq(_)
SumSeq(s) == IF s = <<>> THEN 0 ELSE Head(s) + SumSeq(Tail(s))

Reverse(s) == List([i \in 1..Len(s) |-> s[Len(s) + 1 - i]])

\* all sequences over S of length at most n
RECURSIVE SeqsUpTo(_, _)
SeqsUpTo(S, n) ==
  IF n = 0 THEN {<<>>}
  ELSE LET shorter == SeqsUpTo(S, n - 1)
       IN  shorter \cup {Append(s, c) : s \in shorter, c \in S}

\* sequences over S without repetition, of length at most n
NoDupSeqs(S, n) ==
  {s \in SeqsUpTo(S, n) : \A i, j \in DOMAIN s : i /= j => s[i] /= s[j]}

\* the subsequences of s of length at most n
SubSeqsUpTo(s, n) ==
  {LET idx == SelectSeq(List([i \in DOMAIN s |-> i]), LAMBDA i : i \in I)
   IN  List([j \in DOMAIN idx |-> s[idx[j]]])
   : I \in {J \in SUBSET DOMAIN s : Cardinality(J) <= n}}

(***************************************************************************)
(* Decimal numbers (a float64 cell): m * 10^-e, kept without trailing      *)
(* zeros so that equal numbers are equal values.                           *)
(***************************************************************************)
RECURSIVE Pow10(_)
Pow10(n) == IF n = 0 THEN 1 ELSE 10 * Pow10(n - 1)

RECURSIVE Dec(_, _)
Dec(m, e) == IF e > 0 /\ m % 10 = 0 THEN Dec(m \div 10, e - 1) ELSE [m |-> m, e |-> e]

DecLess(a, b) == a.m * Pow10(b.e) < b.m * Pow10(a.e)

(***************************************************************************)
(* Cells: a str object, a float, or NaN (a missing CSV field).             *)
(***************************************************************************)
Zero == [m |-> 0, e |-> 0]

Str(s) == [k |-> "str", s |-> s, v |-> Zero]

Num(d) == [k |-> "num", s |-> <<>>, v |-> d]

NaN == [k |-> "nan", s |-> <<>>, v |-> Zero]

Int2Num(n) == Num(Dec(n, 0))

(***************************************************************************)
(* Text.                                                                   *)
(***************************************************************************)
Digits == {"0", "1", "2", "3", "4", "5", "6", "7", "8", "9"}

DigitVal(c) ==
  CASE c = "0" -> 0 [] c = "1" -> 1 [] c = "2" -> 2 [] c = "3" -> 3 [] c = "4" -> 4
    [] c = "5" -> 5 [] c = "6" -> 6 [] c = "7" -> 7 [] c = "8" -> 8 [] c = "9" -> 9

\* str.replace(old, ""): every occurrence of a character of `drop` removed
RemoveChars(s, drop) == SelectSeq(s, LAMBDA c : c \notin drop)

\* str.startswith(c)
StartsWith(s, c) == Len(s) > 0 /\ s[1] = c

\* str.strip(): leading and trailing blanks removed
RECURSIVE LStrip(_)
LStrip(s) == IF s /= <<>> /\ Head(s) = " " THEN LStrip(Tail(s)) ELSE s

StripText(s) == Reverse(LStrip(Reverse(LStrip(s))))

\* str.isdigit(): non-empty and every character a digit
IsDigit(s) == s /= <<>> /\ \A i \in DOMAIN s : s[i] \in Digits

RECURSIVE DigitsValue(_)
DigitsValue(s) ==
  IF s = <<>> THEN 0 ELSE 10 * DigitsValue(SubSeq(s, 1, Len(s) - 1)) + DigitVal(s[Len(s)])

DotCount(s) == Len(SelectSeq(s, LAMBDA c : c = "."))

\* float(s) succeeds: blanks around, digits with at most one point and at
\* least one digit (over the characters the model draws: digits, ".", " ",
\* "$", ",", "%" and letters; no sign, exponent or underscore is drawn)
FloatParses(s) ==
  LET t == StripText(s)
  IN  /\ \A i \in DOMAIN t : t[i] \in Digits \cup {"."}
      /\ DotCount(t) <= 1
      /\ \E i \in DOMAIN t : t[i] \in Digits

\* float(s), for a text that parses
FloatValue(s) ==
  LET t  == StripText(s)
      ds == RemoveChars(t, {"."})
      e  == IF DotCount(t) = 0 THEN 0
            ELSE Len(t) - (CHOOSE i \in DOMAIN t : t[i] = ".")
  IN  Dec(DigitsValue(ds), e)

(***************************************************************************)
(* DataFrames: an index (the row labels) and a sequence of columns, each   *)
(* with a name, a dtype ("object" or "float64") and one cell per row.      *)
(* A column name is a sequence of parts, so that f"{pitch}%" is            *)
(* <<pitch, "%">> and a padded header is <<" ", "SL", "%">>.               *)
(***************************************************************************)
Column(name, dtype, cells) == [name |-> name, dtype |-> dtype, cells |-> List(cells)]

Frame(cols) ==
  [index |-> IF cols = <<>> THEN <<>> ELSE List([i \in 1..Len(cols[1].cells) |-> i - 1]),
   cols  |-> cols]

NRows(df) == Len(df.index)

ColNames(df) == List([i \in 1..Len(df.cols) |-> df.cols[i].name])

HasCol(df, name) == \E i \in DOMAIN df.cols : df.cols[i].name = name

\* df[name]: the first column of that name
Col(df, name) == df.cols[CHOOSE i \in DOMAIN df.cols : df.cols[i].name = name]

\* df[name] = column, for a name the frame already has
SetCol(df, i, col) == [df EXCEPT !.cols[i] = col]

(***************************************************************************)
(* convert_currency_columns: app.py 32-37, fa_tracker.py 32-37.            *)
(***************************************************************************)
\* df[col].str.startswith("$").any(): NaN entries give NaN, which any() skips
AnyStartsWithDollar(col) ==
  \E i \in DOMAIN col.cells :
      col.cells[i].k = "str" /\ StartsWith(col.cells[i].s, "$")

\* a normalizer that strips the currency symbol and forgets the separators
StripCurrencyDollarOnly(cell) ==
  IF cell.k = "str" THEN Str(RemoveChars(cell.s, {"$"})) ELSE cell

\* .replace('[\$,]', '', regex=True) on one entry: every "$" and "," of a
\* str removed, anything else kept
StripCurrency(cell) ==
  IF cell.k = "str" THEN Str(RemoveChars(cell.s, {"$", ","})) ELSE cell

\* .astype(float) succeeds on one entry
CastParses(cell) == cell.k = "str" => FloatParses(cell.s)

\* .astype(float) on one entry
CastFloat(cell) == IF cell.k = "str" THEN Num(FloatValue(cell.s)) ELSE cell

\* a normalizer that cuts the first character off each text and keeps text
ConvertColumnSliced(col) ==
  Column(col.name, "object",
         [i \in DOMAIN col.cells |->
            IF col.cells[i].k = "str" /\ col.cells[i].s /= <<>>
            THEN Str(Tail(col.cells[i].s)) ELSE col.cells[i]])

\* line 36, right-hand side: the column rewritten as float64
ConvertColumn(col) ==
  Column(col.name, "float64",
         [i \in DOMAIN col.cells |-> CastFloat(StripCurrency(col.cells[i]))])

\* line 36 raises ValueError: some entry does not parse once stripped
ConvertRaises(col) ==
  \E i \in DOMAIN col.cells : ~CastParses(StripCurrency(col.cells[i]))

\* the loop of lines 33-36 from column i on; df is rewritten in place, and a
\* ValueError leaves the columns already rewritten as they are
RECURSIVE ConvertFrom(_, _)
ConvertFrom(df, i) ==
  IF i > Len(df.cols) THEN [df |-> df, raised |-> FALSE]
  ELSE IF df.cols[i].dtype = "object" /\ AnyStartsWithDollar(df.cols[i])
       THEN IF ConvertRaises(df.cols[i])
            THEN [df |-> df, raised |-> TRUE]
            ELSE ConvertFrom(SetCol(df, i, ConvertColumn(df.cols[i])), i + 1)
       ELSE ConvertFrom(df, i + 1)

\* the state of the frame passed in after the call, and whether it raised
convert_currency_columns(df) == ConvertFrom(df, 1)

(***************************************************************************)
(* The normalizer on its own: a table read from a CSV file is drawn, and   *)
(* convert_currency_columns is called on it, then on what it returned.     *)
(***************************************************************************)
NormChars == {"$", ",", "1"}

NormCells == {Str(s) : s \in SeqsUpTo(NormChars, MaxStrLen)} \cup {NaN}

Letters == <<"A", "B", "C", "D", "E", "F", "G", "H", "I", "J", "K", "L", "M">>

NameColumn(n) == Column(<<"Name">>, "object", [i \in 1..n |-> Str(<<Letters[i]>>)])

WarColumn(n) == Column(<<"WAR">>, "float64", [i \in 1..n |-> Int2Num(i)])

\* read_csv types a column with some text as object and a column of empty
\* fields only as float64
InferredColumn(name, cells) ==
  Column(name,
         IF cells = <<>> \/ \E i \in DOMAIN cells : cells[i].k = "str"
         THEN "object" ELSE "float64",
         cells)

\* a contract table of n rows with these AAV entries
NormTable(cells) ==
  Frame(<<NameColumn(Len(cells)), InferredColumn(<<"AAV">>, cells), WarColumn(Len(cells))>>)

IdleNorm == [in |-> Frame(<<>>), prev |-> Frame(<<>>), cur |-> Frame(<<>>),
             calls |-> 0, raised |-> FALSE]

\* df = convert_currency_columns(df), on the frame the last call returned
NormCall ==
  /\ norm.calls < 2
  /\ ~norm.raised
  /\ LET r == convert_currency_columns(norm.cur)
     IN  norm' = [norm EXCEPT !.prev = norm.cur, !.cur = r.df,
                              !.calls = norm.calls + 1, !.raised = r.raised]
  /\ UNCHANGED <<entry, files, cache, pc, data, page, sel, out, lead, pm>>

(***************************************************************************)
(* Ordering of cells, as sort_values compares them: numbers by value, text *)
(* by code point.                                                          *)
(***************************************************************************)
Ord(c) ==
  CASE c = "A" -> 65 [] c = "B" -> 66 [] c = "C" -> 67 [] c = "D" -> 68 [] c = "E"
    -> 69 [] c = "F" -> 70 [] c = "G" -> 71 [] c = "H" -> 72 [] c = "I" -> 73 []
    c = "J" -> 74 [] c = "K" -> 75 [] c = "L" -> 76 [] c = "M" -> 77 [] c = "N"
    -> 78 [] c = "O" -> 79 [] c = "P" -> 80 [] c = "Q" -> 81 [] c = "R" -> 82 []
    c = "S" -> 83 [] c = "T" -> 84 [] c = "U" -> 85 [] c = "V" -> 86 [] c = "W"
    -> 87 [] c = "X" -> 88 [] c = "Y" -> 89 [] c = "Z" -> 90 [] c = "0" -> 48 []
    c = "1" -> 49 [] c = "2" -> 50 [] c = "3" -> 51 [] c = "4" -> 52 [] c = "5"
    -> 53 [] c = "6" -> 54 [] c = "7" -> 55 [] c = "8" -> 56 [] c = "9" -> 57 []
    c = "$" -> 36 [] c = "," -> 44 [] c = "." -> 46 [] c = "%" -> 37 [] c = " "
    -> 32
    [] OTHER -> 127

RECURSIVE TextLess(_, _)
TextLess(a, b) ==
  IF b = <<>> THEN FALSE
  ELSE IF a = <<>> THEN TRUE
  ELSE IF Ord(Head(a)) /= Ord(Head(b)) THEN Ord(Head(a)) < Ord(Head(b))
  ELSE TextLess(Tail(a), Tail(b))

\* a < b for two cells of one column, neither of them NaN
CellLess(a, b) ==
  IF a.k = "num" /\ b.k = "num" THEN DecLess(a.v, b.v)
  ELSE IF a.k = "str" /\ b.k = "str" THEN TextLess(a.s, b.s)
  ELSE FALSE

(***************************************************************************)
(* Row selection, concatenation, sorting.                                  *)
(***************************************************************************)
\* the row positions 1..n that satisfy Keep, in order
RowsWhere(n, Keep(_)) == SelectSeq([i \in 1..n |-> i], Keep)

\* df.iloc[pos]: the rows at the positions pos, in that order, labels kept
TakeRows(df, pos) ==
  [index |-> List([j \in DOMAIN pos |-> df.index[pos[j]]]),
   cols  |-> List([c \in DOMAIN df.cols |->
                     Column(df.cols[c].name, df.cols[c].dtype,
                            [j \in DOMAIN pos |-> df.cols[c].cells[pos[j]]])])]

\* df.head(n)
HeadRows(df, n) == TakeRows(df, [i \in 1..Min(n, NRows(df)) |-> i])

\* df[df[name].isin(values)]
FilterIsin(df, name, values) ==
  TakeRows(df, RowsWhere(NRows(df), LAMBDA i : Col(df, name).cells[i] \in values))

\* Series.unique(): the distinct values in order of first appearance
RECURSIVE Unique(_)
Unique(s) ==
  IF s = <<>> THEN <<>>
  ELSE LET init == Unique(SubSeq(s, 1, Len(s) - 1))
       IN  IF s[Len(s)] \in Range(init) THEN init ELSE Append(init, s[Len(s)])

\* the column names of the frames, in order of first appearance
UnionNames(dfs) == Unique(Flatten([i \in DOMAIN dfs |-> ColNames(dfs[i])]))

\* the cells one frame gives to a column of the concatenation: its own, or
\* NaN for each row when it has no such column
ConcatCells(df, name) ==
  IF HasCol(df, name) THEN Col(df, name).cells ELSE [i \in 1..NRows(df) |-> NaN]

\* the dtype of a column of the concatenation: float64 only when every frame
\* that has the column has it as float64
ConcatDtype(dfs, name) ==
  IF \A i \in DOMAIN dfs : HasCol(dfs[i], name) => Col(dfs[i], name).dtype = "float64"
  THEN "float64" ELSE "object"

\* a concatenation that keeps one row per player
ConcatFirstPerName(dfs) ==
  LET names == UnionNames(dfs)
      all   == [index |-> Flatten([i \in DOMAIN dfs |-> dfs[i].index]),
                cols  |-> List([c \in DOMAIN names |->
                             Column(names[c], ConcatDtype(dfs, names[c]),
                                    Flatten([i \in DOMAIN dfs |-> ConcatCells(dfs[i], names[c])]))])]
      nm    == all.cols[1].cells
  IN  TakeRows(all, RowsWhere(Len(nm), LAMBDA i : \A j \in 1..(i - 1) : nm[j] /= nm[i]))

\* pd.concat(dfs), for a non-empty list: the rows of each frame in list
\* order, the labels kept, the columns the union of the frames' columns
Concat(dfs) ==
  LET names == UnionNames(dfs)
  IN  [index |-> Flatten([i \in DOMAIN dfs |-> dfs[i].index]),
       cols  |-> List([c \in DOMAIN names |->
                    Column(names[c], ConcatDtype(dfs, names[c]),
                           Flatten([i \in DOMAIN dfs |-> ConcatCells(dfs[i], names[c])]))])]

\* sort_values sorts with kind="quicksort", which numpy documents as not
\* stable: the order equal keys come out in is the build's (introsort or a
\* vectorised sort, by array length and CPU).  The model draws the two
\* extreme orders: the one given and its reverse
TieOrders == {"keep", "flip"}

\* ndarray.argsort(kind="quicksort"): the positions of vals in ascending
\* order of value; equal values in the order `tie` names
ArgSort(vals, tie) ==
  LET n == Len(vals)
      Before(i, j) ==
        \/ CellLess(vals[i], vals[j])
        \/ /\ ~CellLess(vals[j], vals[i])
           /\ IF tie = "keep" THEN i < j ELSE i > j
      rank == List([j \in 1..n |-> Cardinality({i \in 1..n : Before(i, j)}) + 1])
  IN  List([r \in 1..n |-> CHOOSE j \in 1..n : rank[j] = r])

\* pandas.core.sorting.nargsort(items, kind="quicksort", ascending=False,
\* na_position="last"): the non-NaN positions are reversed, argsorted and
\* reversed again, the NaN positions follow in row order
Nargsort(cells, tie) ==
  LET n      == Len(cells)
      nonNan == Reverse(RowsWhere(n, LAMBDA i : cells[i].k /= "nan"))
      nans   == RowsWhere(n, LAMBDA i : cells[i].k = "nan")
      perm   == ArgSort(List([j \in DOMAIN nonNan |-> cells[nonNan[j]]]), tie)
  IN  Reverse([j \in DOMAIN nonNan |-> nonNan[perm[j]]]) \o nans

\* df.sort_values(by=stat, ascending=False)
SortValues(df, stat, tie) == TakeRows(df, Nargsort(Col(df, stat).cells, tie))

(***************************************************************************)
(* The CSV files on disk.  Their content is input: the model draws it from *)
(* a few variants (Disks).  Hitters are A, B, C, pitchers P, Q, R; a       *)
(* player is a free agent in several seasons.                              *)
(***************************************************************************)
years == <<22, 23, 24, 25>>

Years == Range(years)

Categories == {"hitters", "pitchers"}

Txt(cs) == [i \in DOMAIN cs |-> Str(<<cs[i]>>)]

Nums(ms) == [i \in DOMAIN ms |-> Num(Dec(ms[i], 1))]

Money(a, b, c) == Str(<<"$", a, ",", b, c, "0">>)

PlayerNames(cat, year) ==
  IF cat = "hitters"
  THEN CASE year = 22 -> <<"A", "B", "C">> [] year = 23 -> <<"A">>
         [] year = 24 -> <<"B", "C">> [] year = 25 -> <<"C", "A">>
  ELSE CASE year = 22 -> <<"P", "Q">> [] year = 23 -> <<"P">>
         [] year = 24 -> <<"Q", "R">> [] year = 25 -> <<"P", "Q">>

\* WAR in tenths
WarOf(cat, year) ==
  IF cat = "hitters"
  THEN CASE year = 22 -> <<31, 50, 50>> [] year = 23 -> <<20>>
         [] year = 24 -> <<5, 12>> [] year = 25 -> <<42, 42>>
  ELSE CASE year = 22 -> <<18, 18>> [] year = 23 -> <<7>>
         [] year = 24 -> <<25, 3>> [] year = 25 -> <<18, 26>>

PlayerIds(n) == Column(<<"playerid">>, "float64", [i \in 1..n |-> Int2Num(1000 + i)])

PerformanceCsv(cat, year) ==
  LET nm == PlayerNames(cat, year)
  IN  Frame(<<Column(<<"Name">>, "object", Txt(nm)),
              PlayerIds(Len(nm)),
              Column(<<"Team">>, "object", [i \in DOMAIN nm |-> Str(<<"N", "Y", nm[i]>>)]),
              Column(<<"WAR">>, "float64", Nums(WarOf(cat, year)))>>)

\* the Total column of the season-25 contract files, by variant: every
\* entry a currency text; one entry without the symbol; one entry missing;
\* one entry that is no number ("$TBD")
ContractKinds == {"clean", "plain", "blank", "unparsable"}

TotalCells(n, kind) ==
  [i \in 1..n |->
     IF i /= n \/ kind = "clean" THEN Money("2", "4", "0")
     ELSE IF kind = "plain" THEN Str(<<"9", "5", "0">>)
     ELSE IF kind = "blank" THEN NaN
     ELSE Str(<<"$", "T", "B", "D">>)]

ContractCsv(cat, year, kind) ==
  LET nm == PlayerNames(cat, year)
      n  == Len(nm)
  IN  Frame(<<Column(<<"Name">>, "object", Txt(nm)),
              Column(<<"AAV">>, "object",
                     [i \in 1..n |-> IF i = 1 THEN Money("1", "2", "0")
                                     ELSE Str(<<"$", "9", "5", "0">>)]),
              Column(<<"Total">>, "object",
                     TotalCells(n, IF year = 25 THEN kind ELSE "clean")),
              Column(<<"Yrs">>, "float64", [i \in 1..n |-> Int2Num(i)])>>)

Pct(a, b, c) == Str(<<a, b, ".", c, "%">>)

\* pitch-mix files: slider usage and velocity in every season, four-seam
\* columns from season 24 on; season 25 has no row for Q; `pad` is the
\* blank some headers carry
PitchesCsv(year, pad) ==
  LET nm == IF year = 25 THEN <<"P">> ELSE PlayerNames("pitchers", year)
      n  == Len(nm)
      sl == <<Column(<<"Name">>, "object", Txt(nm)),
              PlayerIds(n),
              Column(pad \o <<"SL", "%">>, "object",
                     [i \in 1..n |-> IF i = 1 THEN Pct("4", "5", "0") ELSE NaN]),
              Column(<<"v", "SL">>, "float64", [i \in 1..n |-> Num(Dec(882, 1))])>>
      fs == <<Column(<<"4S", "%">> \o pad, "object", [i \in 1..n |-> Pct("5", "5", "0")]),
              Column(<<"v", "4S">>, "float64", [i \in 1..n |-> Num(Dec(951, 1))]),
              Column(<<"w", "4S">>, "float64", [i \in 1..n |-> Num(Dec(34, 1))]),
              Column(<<"Stf+ ", "4S">>, "float64", [i \in 1..n |-> Int2Num(104)])>>
  IN  Frame(IF year >= 24 THEN sl \o fs ELSE sl)

\* the files load_data names: f"{cat}_{year}.csv", f"{cat}_{year}_contract.csv"
\* and f"pitchers_{year}_pitches.csv"
FileName(cat, year, suffix) == <<cat, year, suffix>>

FileNames ==
  {FileName(c, y, x) : c \in Categories, y \in Years, x \in {"", "_contract"}}
    \cup {FileName("pitchers", y, "_pitches") : y \in Years}

Disk(kind, pad, absent) ==
  Explicit([f \in FileNames |->
     [exists |-> ~(absent /\ f = FileName("pitchers", 25, "_pitches")),
      df     |-> IF f[3] = "" THEN PerformanceCsv(f[1], f[2])
                 ELSE IF f[3] = "_contract" THEN ContractCsv(f[1], f[2], kind)
                 ELSE PitchesCsv(f[2], pad)]])

\* every contract variant with plain headers; padded headers; a file gone
Disks ==
  {Disk(kind, <<>>, FALSE) : kind \in ContractKinds}
    \cup {Disk("clean", <<" ">>, FALSE), Disk("clean", <<>>, TRUE)}

(***************************************************************************)
(* load_data: app.py 8-26, fa_tracker.py 8-26.                             *)
(***************************************************************************)
\* df.drop(columns=[name], errors="ignore")
DropColumn(df, name) ==
  [df EXCEPT !.cols = SelectSeq(df.cols, LAMBDA c : c.name /= name)]

\* pd.read_csv(file).drop(columns=["playerid"], errors="ignore")
ReadCsv(disk, f) == DropColumn(disk[f].df, <<"playerid">>)

\* a loader that forgets the pitch-mix tables
LoadDataNoPitches(disk) ==
  Explicit([c \in Categories |->
     Explicit([y \in Years |->
        [performance |-> ReadCsv(disk, FileName(c, y, "")),
         contract    |-> ReadCsv(disk, FileName(c, y, "_contract"))]])])

\* the mapping load_data returns once every file is read
LoadData(disk) ==
  Explicit([c \in Categories |->
     Explicit([y \in Years |->
        IF c = "hitters"
        THEN [performance |-> ReadCsv(disk, FileName(c, y, "")),
              contract    |-> ReadCsv(disk, FileName(c, y, "_contract"))]
        ELSE [performance |-> ReadCsv(disk, FileName(c, y, "")),
              contract    |-> ReadCsv(disk, FileName(c, y, "_contract")),
              pitches     |-> ReadCsv(disk, FileName(c, y, "_pitches"))]])])

\* pd.read_csv raises FileNotFoundError
LoadRaises(disk) == \E f \in FileNames : ~disk[f].exists

\* line 10 of load_data, and the value of `data` in a run that never bound it
NoData == [hitters |-> <<>>, pitchers |-> <<>>]

(***************************************************************************)
(* Widgets.                                                                *)
(***************************************************************************)
\* the options of the season multi-select and of the year select box
YearOptions == {2022, 2023, 2024, 2025}

PlayerTypes == {"Hitters", "Pitchers"}

Modes == {"Performance Data", "Contract Data"}

\* max_selections of the player multi-select
MaxSelections == 5

\* rows Top Leaders keeps: head(10)
TopN == 10

\* int(str(year)[-2:])
YearKey(year) == year % 100

\* player_type.lower()
Lower(player_type) == IF player_type = "Hitters" THEN "hitters" ELSE "pitchers"

\* "performance" if mode == "Performance Data" else "contract"
DataType(mode) == IF mode = "Performance Data" THEN "performance" ELSE "contract"

(***************************************************************************)
(* What a script run renders.                                              *)
(***************************************************************************)
NoFrame == Frame(<<>>)

NoComparison == [columns |-> <<>>, index |-> <<>>, cells |-> <<>>]

\* status: "ok", or the exception that ended the run; combined: the table
\* of Search & Compare; validation: the "at least 2 players" message;
\* compared/comparison: the transposed table; pitchTable/pitchWarning: the
\* pitch table of app.py or its warning; charts: one entry per pitcher
\* section of fa_tracker.py; shown: the frames the other pages hand to
\* st.data_editor, in order
NoOutput ==
  [status |-> "ok", combined |-> NoFrame, validation |-> FALSE, compared |-> FALSE,
   comparison |-> NoComparison, pitchTable |-> NoFrame, pitchWarning |-> FALSE,
   charts |-> <<>>, shown |-> <<>>]

NoSelection == [mode |-> "", years |-> <<>>, player_type |-> "", players |-> <<>>,
                stat |-> <<>>, tie |-> ""]

(***************************************************************************)
(* Search & Compare: app.py 65-114, fa_tracker.py 66-169.                  *)
(***************************************************************************)
\* the season loop (app.py 73-76, 103-106; fa_tracker.py 74-77, 108-112)
\* from the i-th selected year on: each table of the Dataset is normalized
\* where it is; `strip` is fa_tracker.py's line 111, which also renames the
\* columns of the Dataset's table
RECURSIVE SeasonLoop(_, _, _, _, _, _)
SeasonLoop(d, cat, kind, selected_years, strip, i) ==
  IF i > Len(selected_years) THEN [data |-> d, raised |-> FALSE]
  ELSE LET y  == YearKey(selected_years[i])
           r  == convert_currency_columns(d[cat][y][kind])
           df == IF strip /\ ~r.raised
                 THEN [r.df EXCEPT !.cols =
                         List([c \in DOMAIN r.df.cols |->
                            [r.df.cols[c] EXCEPT !.name = StripText(r.df.cols[c].name)]])]
                 ELSE r.df
           d2 == [d EXCEPT ![cat][y][kind] = df]
       IN  IF r.raised THEN [data |-> d2, raised |-> TRUE]
           ELSE SeasonLoop(d2, cat, kind, selected_years, strip, i + 1)

\* the list the loop appended to: the Dataset's own tables
SelectedFrames(d, cat, kind, selected_years) ==
  List([i \in DOMAIN selected_years |-> d[cat][YearKey(selected_years[i])][kind]])

\* combined_df[combined_df["Name"].isin(selected_players)]
\*   .set_index("Name").transpose()
Comparison(combined_df, selected_players) ==
  LET rows  == FilterIsin(combined_df, <<"Name">>, Range(selected_players))
      stats == SelectSeq(rows.cols, LAMBDA c : c.name /= <<"Name">>)
  IN  [columns |-> Col(rows, <<"Name">>).cells,
       index   |-> List([i \in DOMAIN stats |-> stats[i].name]),
       cells   |-> List([i \in DOMAIN stats |-> stats[i].cells])]

\* fa_tracker.py 94
pitch_types == <<"4S", "CT", "2S", "CH", "SL", "CB", "SPLT", "KCB", "XX">>

NoneCell == [k |-> "none", s |-> <<>>, v |-> Zero]

\* fa_tracker.py 127-130: {pitch: pitcher_data[name].values[0] ...}, as the
\* pitch types that have the column
HasField(pitcher_data, parts) == HasCol(pitcher_data, parts)

Field(pitcher_data, parts) == Col(pitcher_data, parts).cells[1]

\* the filter of fa_tracker.py 133: a str holding "%" that is all digits
\* once "%" and "." are removed
UsageKept(v) ==
  /\ v.k = "str"
  /\ "%" \in Range(v.s)
  /\ IsDigit(RemoveChars(RemoveChars(v.s, {"%"}), {"."}))

\* the conversion of fa_tracker.py 133: float(str(v).replace("%", "").strip())
UsageText(v) == StripText(RemoveChars(v.s, {"%"}))

\* fa_tracker.py 121-145 for one pitcher: "no_data" (line 122), a raised
\* ValueError (line 133), "no_usage" (line 135) or the summary of the chart
PitchSection(pitcher, selected_pitch_data) ==
  LET pitcher_data == FilterIsin(selected_pitch_data, <<"Name">>, {pitcher})
      keys == SelectSeq(pitch_types,
                LAMBDA t : /\ HasField(pitcher_data, <<t, "%">>)
                           /\ UsageKept(Field(pitcher_data, <<t, "%">>)))
      Get(parts) == IF HasField(pitcher_data, parts) THEN Field(pitcher_data, parts)
                    ELSE NoneCell
  IN  IF NRows(pitcher_data) = 0
      THEN [pitcher |-> pitcher, kind |-> "no_data", summary |-> <<>>]
      ELSE IF \E i \in DOMAIN keys :
                ~FloatParses(UsageText(Field(pitcher_data, <<keys[i], "%">>)))
      THEN [pitcher |-> pitcher, kind |-> "ValueError", summary |-> <<>>]
      ELSE IF keys = <<>>
      THEN [pitcher |-> pitcher, kind |-> "no_usage", summary |-> <<>>]
      ELSE [pitcher |-> pitcher, kind |-> "chart",
            summary |-> List(
              [i \in DOMAIN keys |->
                 [type  |-> keys[i],
                  usage |-> FloatValue(UsageText(Field(pitcher_data, <<keys[i], "%">>))),
                  velo  |-> Get(<<"v", keys[i]>>),
                  value |-> Get(<<"w", keys[i]>>),
                  stuff |-> Get(<<"Stf+ ", keys[i]>>)]])]

\* the loop of fa_tracker.py 118-167: the sections rendered, up to and
\* including one that raises
RECURSIVE PitchSections(_, _, _)
PitchSections(selected_players, selected_pitch_data, i) ==
  IF i > Len(selected_players) THEN <<>>
  ELSE LET sec == PitchSection(selected_players[i], selected_pitch_data)
       IN  IF sec.kind = "ValueError" THEN <<sec>>
           ELSE <<sec>> \o PitchSections(selected_players, selected_pitch_data, i + 1)

(***************************************************************************)
(* A script run.  st.cache_data (line 7) keeps the value load_data         *)
(* returned and hands every call a copy of it: `cache` is the kept value,  *)
(* `data` the copy bound at line 28 of the run, as the run leaves it.      *)
(* Streamlit runs the script top to bottom on each interaction: pc is      *)
(* "idle" before a run and "rendered" once the run has ended, normally or  *)
(* by an exception; the next interaction drops the run's globals.          *)
(***************************************************************************)
\* line 28 returns: the cache is filled, or every file can be read
CanLoad == cache.set \/ ~LoadRaises(files)

\* the value bound to `data` at line 28
Loaded == IF cache.set THEN cache.value ELSE LoadData(files)

Cached == [set |-> TRUE, value |-> Loaded]

\* line 28 raises FileNotFoundError: nothing is cached, no widget is drawn
RunLoadFails ==
  /\ pc = "idle"
  /\ ~CanLoad
  /\ pc' = "rendered"
  /\ page' = "none"
  /\ sel' = NoSelection
  /\ data' = NoData
  /\ out' = [NoOutput EXCEPT !.status = "FileNotFoundError"]
  /\ UNCHANGED <<entry, files, cache, norm, lead, pm>>

\* the user touches a widget: the finished run's globals and output go
Interact ==
  /\ pc = "rendered"
  /\ pc' = "idle"
  /\ page' = "none"
  /\ sel' = NoSelection
  /\ data' = NoData
  /\ out' = NoOutput
  /\ UNCHANGED <<entry, files, cache, norm, lead, pm>>

\* app.py 50-61, fa_tracker.py 50-61
RunHome ==
  /\ pc = "idle"
  /\ CanLoad
  /\ pc' = "rendered"
  /\ page' = "Home"
  /\ sel' = NoSelection
  /\ cache' = Cached
  /\ data' = Loaded
  /\ out' = NoOutput
  /\ UNCHANGED <<entry, files, norm, lead, pm>>

\* the pitcher part of Search & Compare, after the player multi-select:
\* app.py 99-114 shows the filtered pitch table or a warning,
\* fa_tracker.py 91-169 one section per selected pitcher
PitcherPart(d, o, selected_years, selected_players) ==
  LET loop == SeasonLoop(d, "pitchers", "pitches", selected_years, entry = "fa_tracker", 1)
      all  == Concat(SelectedFrames(loop.data, "pitchers", "pitches", selected_years))
      selected_pitch_data == FilterIsin(all, <<"Name">>, Range(selected_players))
      secs == PitchSections(selected_players, selected_pitch_data, 1)
  IN  IF loop.raised
      THEN [data |-> loop.data, out |-> [o EXCEPT !.status = "ValueError"]]
      ELSE IF ~HasCol(all, <<"Name">>)
      THEN [data |-> loop.data, out |-> [o EXCEPT !.status = "KeyError"]]
      ELSE IF NRows(selected_pitch_data) = 0
      THEN [data |-> loop.data, out |-> [o EXCEPT !.pitchWarning = TRUE]]
      ELSE IF entry = "app"
      THEN [data |-> loop.data, out |-> [o EXCEPT !.pitchTable = selected_pitch_data]]
      ELSE [data |-> loop.data,
            out  |-> [o EXCEPT !.charts = secs,
                               !.status = IF \E i \in DOMAIN secs : secs[i].kind = "ValueError"
                                          THEN "ValueError" ELSE "ok"]]

\* Search & Compare from the comparison on (app.py 92-114, fa_tracker.py
\* 91-169): only app.py validates the number of players and transposes
AfterPlayers(d, combined_df, selected_years, player_type, selected_players) ==
  LET o1 == [NoOutput EXCEPT !.combined = combined_df]
      o2 == IF entry /= "app" THEN o1
            ELSE IF Len(selected_players) < 2 THEN [o1 EXCEPT !.validation = TRUE]
            ELSE [o1 EXCEPT !.compared = TRUE,
                            !.comparison = Comparison(combined_df, selected_players)]
  IN  IF player_type = "Pitchers"
      THEN PitcherPart(d, o2, selected_years, selected_players)
      ELSE [data |-> d, out |-> o2]

\* app.py 65-114, fa_tracker.py 66-169; the players are drawn in the
\* order of the options (their order only orders the pitcher sections)
RunSearchCompare ==
  /\ pc = "idle"
  /\ CanLoad
  /\ pc' = "rendered"
  /\ \E mode \in Modes, player_type \in PlayerTypes,
        selected_years \in NoDupSeqs(YearOptions, MaxSelYears) :
       LET loop == SeasonLoop(Loaded, Lower(player_type), DataType(mode),
                              selected_years, FALSE, 1)
           dfs  == SelectedFrames(loop.data, Lower(player_type), DataType(mode),
                                  selected_years)
           combined_df == Concat(dfs)
           options == IF HasCol(combined_df, <<"Name">>)
                      THEN Unique(Col(combined_df, <<"Name">>).cells) ELSE <<>>
           \* the ValueError of the normalizer or of pd.concat([]), the
           \* KeyError of combined_df["Name"]
           failure == IF loop.raised \/ dfs = <<>> THEN "ValueError"
                      ELSE IF ~HasCol(combined_df, <<"Name">>) THEN "KeyError"
                      ELSE "ok"
       IN  IF failure /= "ok"
           THEN /\ sel' = [NoSelection EXCEPT !.mode = mode, !.years = selected_years,
                                              !.player_type = player_type]
                /\ data' = loop.data
                /\ out' = [NoOutput EXCEPT !.status = failure]
           ELSE \E selected_players \in
                     SubSeqsUpTo(options, Min(MaxPick, MaxSelections)) :
                  LET r == AfterPlayers(loop.data, combined_df, selected_years,
                                        player_type, selected_players)
                  IN  /\ sel' = [NoSelection EXCEPT !.mode = mode, !.years = selected_years,
                                                    !.player_type = player_type,
                                                    !.players = selected_players]
                      /\ data' = r.data
                      /\ out' = r.out
  /\ page' = "Search & Compare Free Agents"
  /\ cache' = Cached
  /\ UNCHANGED <<entry, files, norm, lead, pm>>

\* app.py 118-134, fa_tracker.py 174-190
RunYearSnapshot ==
  /\ pc = "idle"
  /\ CanLoad
  /\ pc' = "rendered"
  /\ \E mode \in Modes :
       LET h  == convert_currency_columns(Loaded["hitters"][25][DataType(mode)])
           d1 == [Loaded EXCEPT !["hitters"][25][DataType(mode)] = h.df]
           q  == convert_currency_columns(d1["pitchers"][25][DataType(mode)])
           d2 == [d1 EXCEPT !["pitchers"][25][DataType(mode)] = q.df]
       IN  /\ sel' = [NoSelection EXCEPT !.mode = mode]
           /\ data' = IF h.raised THEN d1 ELSE d2
           /\ out' = IF h.raised \/ q.raised
                     THEN [NoOutput EXCEPT !.status = "ValueError"]
                     ELSE [NoOutput EXCEPT !.shown = <<h.df, q.df>>]
  /\ page' = "2025 Free Agents"
  /\ cache' = Cached
  /\ UNCHANGED <<entry, files, norm, lead, pm>>

\* a ranking that sorts the statistic upwards
TopLeadersAscending(df, selected_stat, tie) ==
  HeadRows(TakeRows(df, Reverse(Nargsort(Col(df, selected_stat).cells, tie))), TopN)

\* df.sort_values(by=selected_stat, ascending=False).head(10): app.py 157,
\* fa_tracker.py 213
TopLeaders(df, selected_stat, tie) == HeadRows(SortValues(df, selected_stat, tie), TopN)

\* app.py 138-164, fa_tracker.py 194-220
RunTopLeaders ==
  /\ pc = "idle"
  /\ CanLoad
  /\ pc' = "rendered"
  /\ \E selected_year \in YearOptions, player_type \in PlayerTypes, mode \in Modes,
        tie \in TieOrders :
       LET cat == Lower(player_type)
           y   == YearKey(selected_year)
           r   == convert_currency_columns(Loaded[cat][y][DataType(mode)])
           d1  == [Loaded EXCEPT ![cat][y][DataType(mode)] = r.df]
           pitches == mode = "Performance Data" /\ player_type = "Pitchers"
           q   == convert_currency_columns(d1["pitchers"][y]["pitches"])
           d2  == [d1 EXCEPT !["pitchers"][y]["pitches"] = q.df]
       IN  IF r.raised
           THEN /\ sel' = [NoSelection EXCEPT !.mode = mode, !.years = <<selected_year>>,
                                              !.player_type = player_type]
                /\ data' = d1
                /\ out' = [NoOutput EXCEPT !.status = "ValueError"]
           ELSE \E c \in 2..Len(r.df.cols) :
                  LET selected_stat == r.df.cols[c].name
                      top_leaders == TopLeaders(r.df, selected_stat, tie)
                  IN  /\ sel' = [NoSelection EXCEPT !.mode = mode,
                                   !.years = <<selected_year>>,
                                   !.player_type = player_type,
                                   !.stat = selected_stat, !.tie = tie]
                      /\ data' = IF pitches THEN d2 ELSE d1
                      /\ out' = IF pitches /\ q.raised
                                THEN [NoOutput EXCEPT !.status = "ValueError",
                                                      !.shown = <<top_leaders>>]
                                ELSE IF pitches
                                THEN [NoOutput EXCEPT !.shown = <<top_leaders, q.df>>]
                                ELSE [NoOutput EXCEPT !.shown = <<top_leaders>>]
  /\ page' = "Top Leaders"
  /\ cache' = Cached
  /\ UNCHANGED <<entry, files, norm, lead, pm>>

(***************************************************************************)
(* Top Leaders on its own: a performance table is drawn and ranked by WAR. *)
(***************************************************************************)
StatCells == {Int2Num(1), Int2Num(2), Int2Num(3), NaN}

LongStatCells == {Int2Num(1), Int2Num(2)}

LeaderTable(cells) ==
  Frame(<<NameColumn(Len(cells)), Column(<<"WAR">>, "float64", cells)>>)

IdleLead == [df |-> NoFrame, tie |-> "", top |-> NoFrame, done |-> FALSE]

\* top_leaders = df.sort_values(by="WAR", ascending=False).head(10)
LeadersCall ==
  /\ ~lead.done
  /\ \E tie \in TieOrders :
       lead' = [lead EXCEPT !.tie = tie, !.top = TopLeaders(lead.df, <<"WAR">>, tie),
                            !.done = TRUE]
  /\ UNCHANGED <<entry, files, cache, pc, data, page, sel, out, norm, pm>>

(***************************************************************************)
(* The pitch-mix section on its own: the pitch rows selected for pitcher P *)
(* are drawn, and fa_tracker.py 121-145 runs on them.                      *)
(***************************************************************************)
UsageChars == {"4", ".", "%", " "}

UsageCells ==
  {Str(s) : s \in SeqsUpTo(UsageChars, MaxUsageLen)} \cup {NaN, Num(Dec(45, 0))}

\* the slider columns a pitch-mix file may have next to SL%
SliderFields == {<<"v", "SL">>, <<"w", "SL">>, <<"Stf+ ", "SL">>}

\* the four-seam usage column: absent, or holding this cell
FourSeamUsage == {NoneCell, NaN, Pct("5", "5", "0")}

PitcherRow(sl, fields, fs) ==
  [index |-> <<0>>,
   cols  |-> <<Column(<<"Name">>, "object", <<Str(<<"P">>)>>),
               InferredColumn(<<"SL", "%">>, <<sl>>)>>
             \o (IF <<"v", "SL">> \in fields
                 THEN <<Column(<<"v", "SL">>, "float64", <<Num(Dec(882, 1))>>)>> ELSE <<>>)
             \o (IF <<"w", "SL">> \in fields
                 THEN <<Column(<<"w", "SL">>, "float64", <<Num(Dec(12, 1))>>)>> ELSE <<>>)
             \o (IF <<"Stf+ ", "SL">> \in fields
                 THEN <<Column(<<"Stf+ ", "SL">>, "float64", <<Int2Num(110)>>)>> ELSE <<>>)
             \o (IF fs = NoneCell THEN <<>>
                 ELSE <<InferredColumn(<<"4S", "%">>, <<fs>>)>>)]

IdlePm == [rows |-> NoFrame,
           section |-> [pitcher |-> NaN, kind |-> "", summary |-> <<>>],
           done |-> FALSE]

\* one pass of the loop of fa_tracker.py 118-167, for pitcher P
PitchSectionCall ==
  /\ ~pm.done
  /\ pm' = [pm EXCEPT !.section = PitchSection(Str(<<"P">>), pm.rows), !.done = TRUE]
  /\ UNCHANGED <<entry, files, cache, pc, data, page, sel, out, norm, lead>>

(***************************************************************************)
(* Specifications.                                                         *)
(***************************************************************************)
EntryPoints == {"app", "fa_tracker"}

NoCache == [set |-> FALSE, value |-> NoData]

\* the dashboard: either script, over some files, before its first run
Init ==
  /\ entry \in EntryPoints
  /\ files \in Disks
  /\ cache = NoCache
  /\ pc = "idle"
  /\ data = NoData
  /\ page = "none"
  /\ sel = NoSelection
  /\ out = NoOutput
  /\ norm = IdleNorm
  /\ lead = IdleLead
  /\ pm = IdlePm

Next ==
  \/ RunLoadFails
  \/ RunHome
  \/ RunSearchCompare
  \/ RunYearSnapshot
  \/ RunTopLeaders
  \/ Interact

Spec == Init /\ [][Next]_vars

Idle ==
  /\ entry = "app"
  /\ files = <<>>
  /\ cache = NoCache
  /\ pc = "idle"
  /\ data = NoData
  /\ page = "none"
  /\ sel = NoSelection
  /\ out = NoOutput

\* the normalizer on every drawn table
InitNorm ==
  /\ Idle
  /\ \E n \in 0..MaxRows :
       \E cells \in [1..n -> NormCells] :
         norm = [IdleNorm EXCEPT !.in = NormTable(cells), !.prev = NormTable(cells),
                                 !.cur = NormTable(cells)]
  /\ lead = IdleLead
  /\ pm = IdlePm

NextNorm == NormCall

SpecNorm == InitNorm /\ [][NextNorm]_vars

\* Top Leaders on every drawn table
InitLeaders ==
  /\ Idle
  /\ norm = IdleNorm
  /\ \/ \E n \in 0..MaxSortRows :
          \E cells \in [1..n -> StatCells] :
            lead = [IdleLead EXCEPT !.df = LeaderTable(cells)]
     \/ \E k \in 1..MaxExtraRows :
          \E cells \in [1..(TopN + k) -> LongStatCells] :
            lead = [IdleLead EXCEPT !.df = LeaderTable(cells)]
  /\ pm = IdlePm

NextLeaders == LeadersCall

SpecLeaders == InitLeaders /\ [][NextLeaders]_vars

\* the pitch-mix section on every drawn selection
InitPitch ==
  /\ Idle
  /\ norm = IdleNorm
  /\ lead = IdleLead
  /\ \E sl \in UsageCells, fields \in SUBSET SliderFields, fs \in FourSeamUsage :
       pm = [IdlePm EXCEPT !.rows = PitcherRow(sl, fields, fs)]

NextPitch == PitchSectionCall

SpecPitch == InitPitch /\ [][NextPitch]_vars

(***************************************************************************)
(* The statements of the specification, over the dashboard (Spec).         *)
(***************************************************************************)
SearchPage == "Search & Compare Free Agents"

\* the tables of a Dataset: category, season, kind
Slots ==
  {s \in Categories \X Years \X {"performance", "contract", "pitches"} :
     s[1] = "hitters" => s[3] /= "pitches"}

TableAt(d, s) == d[s[1]][s[2]][s[3]]

\* the column names and the cell values of a table
Content(df) == [c \in DOMAIN df.cols |-> <<df.cols[c].name, df.cols[c].cells>>]

\* every table of the run's Dataset is as load_data returned it
AsLoaded ==
  \A s \in Slots : Content(TableAt(data, s)) = Content(TableAt(cache.value, s))

\* C1: no render writes back to the Dataset: when a render has ended, every
\* table of the Dataset has the column names and the cell values it had
\* when load_data returned
C1_NoWriteBack == (pc = "rendered" /\ cache.set) => AsLoaded

\* the run reached the player multi-select of Search & Compare
PlayersAsked == pc = "rendered" /\ page = SearchPage /\ out.combined /= NoFrame

\* C3: with fewer than 2 players Search & Compare shows the validation
\* message and no comparison; with 2 to 5 players it shows a transposed
\* table with exactly one column per selected player (stated for app.py,
\* the entry point that has the comparison: lines 92-97)
C3_ComparisonColumns ==
  (PlayersAsked /\ entry = "app") =>
    IF Len(sel.players) < 2
    THEN out.validation /\ ~out.compared
    ELSE /\ Len(sel.players) <= MaxSelections
         /\ out.compared
         /\ ~out.validation
         /\ Len(out.comparison.columns) = Len(sel.players)

\* the render ended in the ValueError of convert_currency_columns: not the
\* one of pd.concat([]), nor the one of a pitch section
NormalizerFailed ==
  /\ pc = "rendered"
  /\ out.status = "ValueError"
  /\ ~(page = SearchPage /\ sel.years = <<>>)
  /\ \A i \in DOMAIN out.charts : out.charts[i].kind /= "ValueError"

\* C6: when the normalizer fails in a render, the tables of the Dataset are
\* as they were before the render began, the columns converted before the
\* failing one included
C6_FailureLeavesDataset == (NormalizerFailed /\ cache.set) => AsLoaded

\* the kinds documented for a category
DocumentedKinds(c) ==
  IF c = "hitters" THEN {"performance", "contract"}
  ELSE {"performance", "contract", "pitches"}

HasDocumentedKinds(d) ==
  /\ DOMAIN d = Categories
  /\ \A c \in Categories :
       /\ DOMAIN d[c] = {22, 23, 24, 25}
       /\ \A y \in DOMAIN d[c] : DOMAIN d[c][y] = DocumentedKinds(c)

\* C7: once load_data has succeeded, the Dataset (the value kept and the
\* one a run holds) has, for each of the seasons 22 to 25, exactly the
\* kinds performance and contract for hitters, and those and pitches for
\* pitchers
C7_LoaderKeys ==
  cache.set => /\ HasDocumentedKinds(cache.value)
               /\ pc = "rendered" => HasDocumentedKinds(data)

\* a load that succeeded, seen in the pitchers entry of season 25
C7_Loaded ==
  /\ cache.set
  /\ pc = "rendered"
  /\ page = "Home"
  /\ "pitches" \in DOMAIN data["pitchers"][25]
  /\ "pitches" \notin DOMAIN data["hitters"][25]

\* the table load_data returned for the i-th selected season
SeasonTable(i) ==
  cache.value[Lower(sel.player_type)][YearKey(sel.years[i])][DataType(sel.mode)]

\* C9: for a non-empty selection of seasons, the combined table of Search &
\* Compare has as many rows as the selected seasons' tables together, the
\* rows of each season in selection order, a player of several seasons once
\* per season
C9_CombinedRows ==
  (PlayersAsked /\ sel.years /= <<>>) =>
    /\ NRows(out.combined) =
         SumSeq(List([i \in DOMAIN sel.years |-> NRows(SeasonTable(i))]))
    /\ Col(out.combined, <<"Name">>).cells =
         Flatten(List([i \in DOMAIN sel.years |-> Col(SeasonTable(i), <<"Name">>).cells]))
    /\ out.combined.index =
         Flatten(List([i \in DOMAIN sel.years |-> SeasonTable(i).index]))

\* two seasons combined that share a player
C9_PlayerOfTwoSeasons ==
  /\ PlayersAsked
  /\ Len(sel.years) = 2
  /\ \E i, j \in 1..NRows(out.combined) :
       /\ i < j
       /\ Col(out.combined, <<"Name">>).cells[i] = Col(out.combined, <<"Name">>).cells[j]

\* C10: with no season selected Search & Compare completes its render: no
\* failure of the concatenation or of the Name lookup ends it
C10_EmptySelectionRenders ==
  (pc = "rendered" /\ page = SearchPage /\ sel.years = <<>>) => out.status = "ok"

(***************************************************************************)
(* The statements about convert_currency_columns (SpecNorm).               *)
(***************************************************************************)
\* a text without its "$" and ","
PlainNumber(s) == SelectSeq(s, LAMBDA c : c /= "$" /\ c /= ",")

\* the entry the numeric column holds for an entry of the column: the text
\* without "$" and "," as a decimal number, a missing entry still missing
ExpectedNumber(cell) ==
  IF cell.k = "str" THEN Num(FloatValue(PlainNumber(cell.s))) ELSE cell

ExpectedColumn(col) ==
  [name |-> col.name, dtype |-> "float64",
   cells |-> List([i \in DOMAIN col.cells |-> ExpectedNumber(col.cells[i])])]

AllText(col) == \A i \in DOMAIN col.cells : col.cells[i].k = "str"

BeginsWithDollar(col) ==
  \E i \in DOMAIN col.cells :
    col.cells[i].k = "str" /\ col.cells[i].s /= <<>> /\ Head(col.cells[i].s) = "$"

\* every text of the column is a decimal number once "$" and "," are gone
AllParse(col) ==
  \A i \in DOMAIN col.cells :
    col.cells[i].k = "str" => FloatParses(PlainNumber(col.cells[i].s))

\* a column read as text (text entries, some possibly missing) with an
\* entry that begins with "$"
CurrencyColumn(col) == col.dtype = "object" /\ BeginsWithDollar(col)

\* C4, amended: a column read as text, its entries text or missing, with
\* at least one entry that begins with "$", is replaced by a numeric column
\* holding each text without "$" and "," as a decimal number and each
\* missing entry as missing; every other column keeps its values and type;
\* the call raises exactly when an entry of such a column is no number
\* once stripped
C4_CurrencyColumnsConverted ==
  norm.calls = 1 =>
    LET before == norm.in.cols
        after  == norm.cur.cols
    IN  /\ Len(after) = Len(before)
        /\ norm.cur.index = norm.in.index
        /\ norm.raised =
             (\E c \in DOMAIN before : CurrencyColumn(before[c]) /\ ~AllParse(before[c]))
        /\ ~norm.raised =>
             \A c \in DOMAIN before :
               after[c] = IF CurrencyColumn(before[c]) THEN ExpectedColumn(before[c])
                          ELSE before[c]

\* a column with a missing entry and a "$" text, converted
C4_MissingEntryConverted ==
  /\ norm.calls = 1
  /\ ~norm.raised
  /\ \E i \in 1..NRows(norm.in) : Col(norm.in, <<"AAV">>).cells[i] = NaN
  /\ \E i \in 1..NRows(norm.in) : Col(norm.in, <<"AAV">>).cells[i] = Str(<<"$", "1">>)
  /\ Col(norm.cur, <<"AAV">>).dtype = "float64"
  /\ \E i \in 1..NRows(norm.cur) : Col(norm.cur, <<"AAV">>).cells[i] = Int2Num(1)

\* C4: each column whose values are all text, one of them beginning with
\* "$", is replaced by the numeric column of its values without "$" and
\* ","; every other column has the same values and type after the call
C4_AllTextColumnsConverted ==
  (norm.calls = 1 /\ ~norm.raised) =>
    \A c \in DOMAIN norm.in.cols :
      norm.cur.cols[c] =
        IF AllText(norm.in.cols[c]) /\ BeginsWithDollar(norm.in.cols[c])
        THEN ExpectedColumn(norm.in.cols[c])
        ELSE norm.in.cols[c]

\* C5: on a table the normalizer succeeds on, normalizing the normalized
\* table succeeds and changes no column's values or type
C5_Idempotent == norm.calls = 2 => (~norm.raised /\ norm.cur = norm.prev)

\* a second call on a table the first call converted a column of
C5_SecondCallOnConverted ==
  /\ norm.calls = 2
  /\ norm.prev /= norm.in
  /\ Col(norm.prev, <<"AAV">>).dtype = "float64"

(***************************************************************************)
(* The statements about Top Leaders (SpecLeaders).                         *)
(***************************************************************************)
War(df, i) == Col(df, <<"WAR">>).cells[i]

\* a ranks below b: a number below a greater one, a missing value below
\* any number
RanksBelow(a, b) ==
  \/ a.k = "nan" /\ b.k = "num"
  \/ a.k = "num" /\ b.k = "num" /\ DecLess(a.v, b.v)

\* lead.top holds min(10, n) distinct rows of lead.df, none ranking below a
\* row left out, in descending order of WAR
TopRowsDescending ==
  LET df  == lead.df
      top == lead.top
      n   == NRows(top)
  IN  /\ n = IF NRows(df) < 10 THEN NRows(df) ELSE 10
      /\ \A i \in 1..n :
           /\ top.index[i] \in 0..(NRows(df) - 1)
           /\ \A c \in DOMAIN df.cols :
                /\ top.cols[c].name = df.cols[c].name
                /\ top.cols[c].cells[i] = df.cols[c].cells[top.index[i] + 1]
      /\ \A i, j \in 1..n : i /= j => top.index[i] /= top.index[j]
      /\ \A i, j \in 1..n : i < j => ~RanksBelow(War(top, i), War(top, j))
      /\ \A r \in 1..NRows(df) :
           (\A i \in 1..n : top.index[i] /= r - 1) =>
             \A i \in 1..n : ~RanksBelow(War(top, i), War(df, r))

\* rows of equal WAR are in the order they have in lead.df
TiesInRowOrder ==
  \A i, j \in 1..NRows(lead.top) :
    (i < j /\ War(lead.top, i) = War(lead.top, j)) => lead.top.index[i] < lead.top.index[j]

NumberText(s) ==
  /\ \A i \in DOMAIN s : s[i] \in Digits \cup {"."}
  /\ Len(SelectSeq(s, LAMBDA c : c = ".")) <= 1
  /\ \E i \in DOMAIN s : s[i] \in Digits

\* a percentage text in the strict reading: a number, then "%"
PercentText(v) ==
  /\ v.k = "str"
  /\ Len(v.s) >= 2
  /\ v.s[Len(v.s)] = "%"
  /\ NumberText(SubSeq(v.s, 1, Len(v.s) - 1))

\* a percentage text in the loosest reading: a text with a "%" that is a
\* number once the "%" and the blanks around it are gone
LoosePercentText(v) ==
  /\ v.k = "str"
  /\ "%" \in Range(v.s)
  /\ NumberText(StripText(SelectSeq(v.s, LAMBDA c : c /= "%")))

\* the pitch types whose usage column the drawn row has with a cell that Ok
UsageTypes(Ok(_)) ==
  {t \in Range(pitch_types) :
     HasCol(pm.rows, <<t, "%">>) /\ Ok(Col(pm.rows, <<t, "%">>).cells[1])}

\* C8: for a pitcher with a pitch-mix row the section raises no error; the
\* breakdown has one row per pitch type whose usage column is present with
\* a parsable percentage text (every type with a percentage text in the
\* strict reading, no type without one in the loosest reading); velocity,
\* value and stuff are null where the column is absent; with no parsable
\* usage at all the section is the warning, without a chart
C8_Breakdown ==
  pm.done =>
    LET sec   == pm.section
        types == {sec.summary[i].type : i \in DOMAIN sec.summary}
    IN  /\ sec.kind \in {"chart", "no_usage"}
        /\ UsageTypes(LoosePercentText) = {} => sec.kind = "no_usage"
        /\ UsageTypes(PercentText) /= {} => sec.kind = "chart"
        /\ sec.kind = "chart" =>
             /\ UsageTypes(PercentText) \subseteq types
             /\ types \subseteq UsageTypes(LoosePercentText)
             /\ Cardinality(types) = Len(sec.summary)
             /\ \A i \in DOMAIN sec.summary :
                  LET t == sec.summary[i].type
                  IN  /\ ~HasCol(pm.rows, <<"v", t>>) => sec.summary[i].velo = NoneCell
                      /\ ~HasCol(pm.rows, <<"w", t>>) => sec.summary[i].value = NoneCell
                      /\ ~HasCol(pm.rows, <<"Stf+ ", t>>) => sec.summary[i].stuff = NoneCell

====
